---- MODULE Spec2Model ----
(***************************************************************************)
(* Model of the vehicle-management HTTP service (src/src/main.rs,          *)
(* src/src/model.rs): six handlers, each running one SQL statement against *)
(* a PostgreSQL store shared by concurrently handled requests.             *)
(*                                                                         *)
(* A request is handled in two steps, split at the handler's only await    *)
(* point: Receive (route dispatch, path and body extracted, statement      *)
(* sent) and the handler action named after the source function (the       *)
(* statement executes in the store, `result` is bound, the match maps it   *)
(* to the HTTP response, kept in `returned` until the next handler         *)
(* returns).  post_odometer has one more step in between,                  *)
(* StatementStart, because now() is fixed when the statement's transaction *)
(* starts, not when the row is written.                                    *)
(***************************************************************************)
EXTENDS Integers, Sequences, FiniteSets, TLC

\* ---------------------------------------------------------------- bounds
MaxVehicles == 2      \* vehicles ever created (values of the id sequence)
MaxReadings == 2      \* rows ever inserted into vehicle_odometer
MaxClock    == 2      \* last value the clock advances to on its own
MaxRequests == 3      \* requests received in one run

Procs        == {"r1", "r2"}        \* requests handled concurrently
Names        == {"car", "van"}      \* PostVehicle.name
Descriptions == {"red"}             \* PostVehicle.description
Odometers    == {900, 1500}         \* PostOdometer.odometer
PathIds      == {-1} \cup (1..MaxVehicles)   \* {id} path segment (i32)

VARIABLES
    vehicles,           \* table public.vehicles, in heap order
    vehicles_id_seq,    \* last value handed out for vehicles.id
    vehicle_odometer,   \* table public.vehicle_odometer, in insertion order
    clock,              \* the database server's clock
    pc,                 \* per request slot: "idle", "await", "intx"
    req,                \* the request a slot is handling
    now,                \* now() of the slot's running statement
    returned,           \* the latest handler return: its request, its local
                        \* `result`, its statement's now() and its response
    received,           \* number of requests received so far
    created,            \* history: id -> name/description of each 200 create
                        \* whose id has not been deleted with a 200 since
    deleted,            \* history: the ids whose delete returned 200, in order
    calls,              \* history: number of store calls made so far
    arrived,            \* history: readings already acknowledged when the
                        \* slot's post-odometer request arrived
    issuedAfter         \* history: `arrived` of the request behind each reading

vars == <<vehicles, vehicles_id_seq, vehicle_odometer, clock, pc, req, now,
          returned, received, created, deleted, calls, arrived,
          issuedAfter>>

\* ------------------------------------------------------- values and helpers
Range(s) == {s[i] : i \in 1..Len(s)}

NoError  == [kind |-> "none", message |-> <<>>]
Ok(rows) == [tag |-> "Ok", rows |-> rows, err |-> NoError]
Err(e)   == [tag |-> "Err", rows |-> <<>>, err |-> e]
NoResult == [tag |-> "None", rows |-> <<>>, err |-> NoError]

Response(status, body) == [status |-> status, body |-> body]
NoResponse == Response(0, "")
NoRequest  == [op |-> "none"]
NoReturn   == [req |-> NoRequest, result |-> NoResult, now |-> 0,
               resp |-> NoResponse]

\* sqlx::Error: no connection to be had from the pool, or an error the
\* database returned with its message (texts are sequences of words)
PoolTimedOut == [kind |-> "PoolTimedOut", message |-> <<>>]
DatabaseError(message) == [kind |-> "Database", message |-> message]
\* Display of sqlx::Error
to_string(e) ==
    IF e.kind = "Database"
    THEN <<"error", "returned", "from", "database:">> \o e.message
    ELSE <<"pool", "timed", "out", "while", "waiting", "for", "an", "open",
           "connection">>

\* str::contains on word sequences: pat occurs as a contiguous run of s
contains(s, pat) ==
    \E i \in 1..(Len(s) + 1) :
        /\ i + Len(pat) - 1 <= Len(s)
        /\ SubSeq(s, i, i + Len(pat) - 1) = pat

\* ------------------------------------------------------------ store schema
\* vehicle_odometer.vehicle_id REFERENCES vehicles(id), no cascade
FkInsertViolation ==
    DatabaseError(<<"insert", "or", "update", "on", "table",
                    "vehicle_odometer", "violates", "foreign", "key",
                    "constraint", "vehicle_odometer_vehicle_id_fkey">>)
FkDeleteViolation ==
    DatabaseError(<<"update", "or", "delete", "on", "table", "vehicles",
                    "violates", "foreign", "key", "constraint",
                    "vehicle_odometer_vehicle_id_fkey", "on", "table",
                    "vehicle_odometer">>)
VehicleExists(vs, id) == \E i \in 1..Len(vs) : vs[i].id = id
Referenced(odo, id)   == \E i \in 1..Len(odo) : odo[i].vehicle_id = id
\* the constraint as checked when a row is inserted into vehicle_odometer
ForeignKeyUnchecked(vs, vehicle_id) == TRUE
ForeignKey(vs, vehicle_id) == VehicleExists(vs, vehicle_id)
\* the constraint as checked when a row is deleted from vehicles
Restrict(odo, id) == Referenced(odo, id)
\* vehicles.id is a serial column: the next value of its sequence
NextId(seq) == seq + 1

\* ------------------------------------------------------------ SQL statements
\* Each statement is one atomic step of the store and yields the sqlx result
\* together with the tables it leaves behind.

\* variant: the listing cut off after the first row
SelectVehiclesLimit(vs) == Ok(IF Len(vs) > 1 THEN SubSeq(vs, 1, 1) ELSE vs)

\* SELECT id, "name", description FROM public.vehicles;  (fetch_all)
SelectVehicles(vs) == Ok(vs)

\* SELECT ... FROM public.vehicles WHERE id = $1  (fetch_optional)
SelectVehicleById(vs, id) == Ok(SelectSeq(vs, LAMBDA v : v.id = id))

\* variant: the two bind parameters in the wrong order
InsertVehicleSwapped(vs, seq, name, description) ==
    LET id == NextId(seq) IN
    [result   |-> Ok(<<[id |-> id]>>),
     vehicles |-> Append(vs, [id |-> id, name |-> description,
                              description |-> name]),
     seq      |-> id]

\* INSERT INTO public.vehicles ("name", description) VALUES($1, $2)
\* RETURNING id;  (fetch_one)
InsertVehicle(vs, seq, name, description) ==
    LET id == NextId(seq) IN
    [result   |-> Ok(<<[id |-> id]>>),
     vehicles |-> Append(vs, [id |-> id, name |-> name,
                              description |-> description]),
     seq      |-> id]

\* DELETE FROM public.vehicles WHERE id=$1 RETURNING id;  (fetch_optional)
DeleteVehicle(vs, odo, id) ==
    IF VehicleExists(vs, id) /\ Restrict(odo, id)
    THEN [result |-> Err(FkDeleteViolation), vehicles |-> vs]
    ELSE [result   |-> Ok([i \in 1..Len(SelectSeq(vs, LAMBDA v : v.id = id))
                              |-> [id |-> id]]),
          vehicles |-> SelectSeq(vs, LAMBDA v : v.id # id)]

\* vehicle_odometer o INNER JOIN vehicles v ON o.vehicle_id = v.id
\* WHERE o.vehicle_id = $1, as the set of joined rows
JoinOdometer(vs, odo, id) ==
    {[vehicle_id   |-> odo[i].vehicle_id,
      vehicle_name |-> vs[j].name,
      odometer     |-> odo[i].odometer,
      timestamp    |-> odo[i].timestamp] :
        <<i, j>> \in {ij \in (1..Len(odo)) \X (1..Len(vs)) :
                         /\ odo[ij[1]].vehicle_id = vs[ij[2]].id
                         /\ odo[ij[1]].vehicle_id = id}}

\* variant: ORDER BY o.timestamp ASC
OrderFirstAscending(rows) ==
    {r \in rows : \A o \in rows : o.timestamp >= r.timestamp}

\* ORDER BY o.timestamp DESC: the rows that may come first (ties are in no
\* defined order)
OrderFirst(rows) == {r \in rows : \A o \in rows : o.timestamp <= r.timestamp}

\* ... ORDER BY o.timestamp DESC LIMIT 1  (fetch_optional): the possible
\* results
SelectOdometerLatest(vs, odo, id) ==
    LET rows == JoinOdometer(vs, odo, id) IN
    IF rows = {} THEN {Ok(<<>>)} ELSE {Ok(<<r>>) : r \in OrderFirst(rows)}

\* variant: the timestamp column filled from a bind parameter of the request
InsertOdometerClientTime(vs, odo, vehicle_id, odometer, txnow) ==
    IF ~ForeignKey(vs, vehicle_id)
    THEN [result |-> Err(FkInsertViolation), vehicle_odometer |-> odo]
    ELSE [result |-> Ok(<<>>),
          vehicle_odometer |-> Append(odo, [vehicle_id |-> vehicle_id,
                                            odometer   |-> odometer,
                                            timestamp  |-> odometer])]

\* INSERT INTO public.vehicle_odometer (vehicle_id, odometer, "timestamp")
\* VALUES($1, $2, (now() AT TIME ZONE 'UTC'::text));  (execute)
InsertOdometer(vs, odo, vehicle_id, odometer, txnow) ==
    IF ~ForeignKey(vs, vehicle_id)
    THEN [result |-> Err(FkInsertViolation), vehicle_odometer |-> odo]
    ELSE [result |-> Ok(<<>>),
          vehicle_odometer |-> Append(odo, [vehicle_id |-> vehicle_id,
                                            odometer   |-> odometer,
                                            timestamp  |-> txnow])]

\* ------------------------------------------------- the handlers' match arms
\* variant: the result unwrapped, so an Err ends the request with no response
get_vehicles_match_unwrap(r) ==
    IF r.tag = "Ok"
    THEN Response(200, [rows |-> Len(r.rows), vehicles |-> r.rows])
    ELSE NoResponse

get_vehicles_match(r) ==
    IF r.tag = "Ok"
    THEN Response(200, [rows |-> Len(r.rows), vehicles |-> r.rows])
    ELSE Response(500, "Failed to query vehicles")

get_vehicle_by_id_match(r) ==
    IF r.tag = "Ok"
    THEN IF Len(r.rows) > 0 THEN Response(200, r.rows[1])
                            ELSE Response(404, "Vehicle not found")
    ELSE Response(500, "Failed to query vehicle")

post_vehicle_match(r) ==
    IF r.tag = "Ok" THEN Response(200, r.rows[1].id)
                    ELSE Response(500, "Failed to create vehicle")

\* variant: Ok(_) answered 200 whether or not a row came back
delete_vehicle_by_id_match_any(r) ==
    IF r.tag = "Ok" THEN Response(200, "Vehicle deleted")
                    ELSE Response(500, "Failed to delete vehicle")

\* variant: Err(_) answered like Ok(None)
delete_vehicle_by_id_match_err404(r) ==
    IF r.tag = "Ok" /\ Len(r.rows) > 0
    THEN Response(200, "Vehicle deleted")
    ELSE Response(404, "Vehicle not found")

delete_vehicle_by_id_match(r) ==
    IF r.tag = "Ok"
    THEN IF Len(r.rows) > 0 THEN Response(200, "Vehicle deleted")
                            ELSE Response(404, "Vehicle not found")
    ELSE Response(500, "Failed to delete vehicle")

\* variant: Ok(None) not told apart from a failed store call
get_vehicle_odometer_by_id_match_none500(r) ==
    IF r.tag = "Ok" /\ Len(r.rows) > 0
    THEN Response(200, r.rows[1])
    ELSE Response(500, "Failed to query odometer")

get_vehicle_odometer_by_id_match(r) ==
    IF r.tag = "Ok"
    THEN IF Len(r.rows) > 0 THEN Response(200, r.rows[1])
                            ELSE Response(404, "No odometer record")
    ELSE Response(500, "Failed to query odometer")

\* variant: the error text searched for a phrase the store does not use
post_odometer_match_wrong_phrase(r) ==
    IF r.tag = "Ok"
    THEN Response(200, "Odometer updated successfully")
    ELSE IF contains(to_string(r.err), <<"foreign", "key", "violation">>)
         THEN Response(400, "Invalid vehicle ID")
         ELSE Response(500, "Internal Server Error")

post_odometer_match(r) ==
    IF r.tag = "Ok"
    THEN Response(200, "Odometer updated successfully")
    ELSE IF contains(to_string(r.err), <<"foreign", "key", "constraint">>)
         THEN Response(400, "Invalid vehicle ID")
         ELSE Response(500, "Internal Server Error")

\* --------------------------------------------------------------- requests
Requests ==
    [op : {"get_vehicles"}]
    \cup [op : {"get_vehicle_by_id", "delete_vehicle_by_id",
                "get_vehicle_odometer_by_id"}, id : PathIds]
    \cup [op : {"post_vehicle"}, name : Names, description : Descriptions]
    \cup [op : {"post_odometer"}, id : PathIds, odometer : Odometers]

InFlight(op) == Cardinality({q \in Procs : pc[q] \in {"await", "intx"}
                                            /\ req[q].op = op})

\* The store outlives the service: it starts empty or with a vehicle left by
\* an earlier run.
InitialVehicles ==
    {<<>>, <<[id |-> 1, name |-> "car", description |-> "red"]>>}

Init ==
    /\ vehicles \in InitialVehicles
    /\ vehicles_id_seq = Len(vehicles)
    /\ vehicle_odometer = <<>>
    /\ clock = 1
    /\ pc = [p \in Procs |-> "idle"]
    /\ req = [p \in Procs |-> NoRequest]
    /\ now = [p \in Procs |-> 0]
    /\ returned = NoReturn
    /\ received = 0
    /\ created = <<>>
    /\ deleted = <<>>
    /\ calls = 0
    /\ arrived = [p \in Procs |-> 0]
    /\ issuedAfter = <<>>

\* The router hands a request to its handler, which extracts the path and
\* body and sends its statement to the pool.
Receive(p) ==
    /\ pc[p] = "idle"
    /\ received < MaxRequests
    /\ received' = received + 1
    /\ \E r \in Requests :
        /\ r.op = "post_vehicle" =>
               vehicles_id_seq + InFlight("post_vehicle") < MaxVehicles
        /\ r.op = "post_odometer" =>
               Len(vehicle_odometer) + InFlight("post_odometer") < MaxReadings
        /\ req' = [req EXCEPT ![p] = r]
        /\ arrived' = [arrived EXCEPT ![p] =
               IF r.op = "post_odometer" THEN Len(vehicle_odometer) ELSE 0]
    /\ pc' = [pc EXCEPT ![p] = "await"]
    /\ UNCHANGED <<vehicles, vehicles_id_seq, vehicle_odometer, clock, now,
                   returned, created, deleted, calls, issuedAfter>>

\* The handler resumes with `result` bound to r and returns its response.
Return(p, r, response) ==
    /\ returned' = [req |-> req[p], result |-> r, now |-> now[p],
                    resp |-> response]
    /\ pc' = [pc EXCEPT ![p] = "idle"]
    /\ req' = [req EXCEPT ![p] = NoRequest]
    /\ now' = [now EXCEPT ![p] = 0]
    /\ arrived' = [arrived EXCEPT ![p] = 0]
    /\ calls' = calls + 1
    /\ UNCHANGED received

\* A store call that fails before the statement runs (no connection).
StoreFault(r) == r = Err(PoolTimedOut)

get_vehicles(p) ==
    /\ pc[p] = "await" /\ req[p].op = "get_vehicles"
    /\ \E r \in {SelectVehicles(vehicles), Err(PoolTimedOut)} :
           Return(p, r, get_vehicles_match(r))
    /\ UNCHANGED <<vehicles, vehicles_id_seq, vehicle_odometer, clock,
                   created, deleted, issuedAfter>>

get_vehicle_by_id(p) ==
    /\ pc[p] = "await" /\ req[p].op = "get_vehicle_by_id"
    /\ \E r \in {SelectVehicleById(vehicles, req[p].id), Err(PoolTimedOut)} :
           Return(p, r, get_vehicle_by_id_match(r))
    /\ UNCHANGED <<vehicles, vehicles_id_seq, vehicle_odometer, clock,
                   created, deleted, issuedAfter>>

post_vehicle(p) ==
    /\ pc[p] = "await" /\ req[p].op = "post_vehicle"
    /\ LET st == InsertVehicle(vehicles, vehicles_id_seq, req[p].name,
                               req[p].description)
       IN \E fault \in BOOLEAN :
            LET r == IF fault THEN Err(PoolTimedOut) ELSE st.result
                response == post_vehicle_match(r)
            IN /\ Return(p, r, response)
               /\ vehicles' = IF fault THEN vehicles ELSE st.vehicles
               /\ vehicles_id_seq' = IF fault THEN vehicles_id_seq ELSE st.seq
               /\ created' = IF response.status = 200
                             THEN (response.body :>
                                     [name |-> req[p].name,
                                      description |-> req[p].description])
                                  @@ created
                             ELSE created
    /\ UNCHANGED <<vehicle_odometer, clock, deleted, issuedAfter>>

delete_vehicle_by_id(p) ==
    /\ pc[p] = "await" /\ req[p].op = "delete_vehicle_by_id"
    /\ LET st == DeleteVehicle(vehicles, vehicle_odometer, req[p].id)
       IN \E fault \in BOOLEAN :
            LET r == IF fault THEN Err(PoolTimedOut) ELSE st.result
                response == delete_vehicle_by_id_match(r)
            IN /\ Return(p, r, response)
               /\ vehicles' = IF fault THEN vehicles ELSE st.vehicles
               /\ deleted' = IF response.status = 200
                             THEN Append(deleted, req[p].id) ELSE deleted
               /\ created' = IF response.status = 200
                             THEN [i \in DOMAIN created \ {req[p].id}
                                     |-> created[i]]
                             ELSE created
    /\ UNCHANGED <<vehicles_id_seq, vehicle_odometer, clock, issuedAfter>>

get_vehicle_odometer_by_id(p) ==
    /\ pc[p] = "await" /\ req[p].op = "get_vehicle_odometer_by_id"
    /\ \E r \in SelectOdometerLatest(vehicles, vehicle_odometer, req[p].id)
                  \cup {Err(PoolTimedOut)} :
           Return(p, r, get_vehicle_odometer_by_id_match(r))
    /\ UNCHANGED <<vehicles, vehicles_id_seq, vehicle_odometer, clock,
                   created, deleted, issuedAfter>>

\* The store starts the INSERT's transaction: now() is fixed here, at what
\* the server's clock shows.  The clock may have advanced since it was last
\* read.
StatementStart(p) ==
    /\ pc[p] = "await" /\ req[p].op = "post_odometer"
    /\ \E t \in {clock, clock + 1} :
        /\ t > clock => clock < MaxClock
        /\ clock' = t
        /\ now' = [now EXCEPT ![p] = t]
    /\ pc' = [pc EXCEPT ![p] = "intx"]
    /\ UNCHANGED <<vehicles, vehicles_id_seq, vehicle_odometer, req,
                   returned, received, created, deleted, calls, arrived,
                   issuedAfter>>

\* The row is written (or the store call fails) and the handler answers.
\* Running the INSERT takes longer than the clock's resolution, so the clock
\* has moved on by the time the row is there.
post_odometer(p) ==
    /\ \/ pc[p] = "intx"
       \/ pc[p] = "await"
    /\ req[p].op = "post_odometer"
    /\ LET st == InsertOdometer(vehicles, vehicle_odometer, req[p].id,
                                req[p].odometer, now[p])
       IN \E fault \in BOOLEAN :
            LET r == IF fault THEN Err(PoolTimedOut) ELSE st.result
            IN /\ pc[p] = "await" => fault
               /\ Return(p, r, post_odometer_match(r))
               /\ vehicle_odometer' =
                      IF fault THEN vehicle_odometer ELSE st.vehicle_odometer
               /\ issuedAfter' =
                      IF r.tag = "Ok" THEN Append(issuedAfter, arrived[p])
                                      ELSE issuedAfter
               /\ clock' = IF r.tag = "Ok" THEN clock + 1 ELSE clock
    /\ UNCHANGED <<vehicles, vehicles_id_seq, created, deleted>>

Next ==
    \/ \E p \in Procs : Receive(p)
    \/ \E p \in Procs : get_vehicles(p)
    \/ \E p \in Procs : get_vehicle_by_id(p)
    \/ \E p \in Procs : post_vehicle(p)
    \/ \E p \in Procs : delete_vehicle_by_id(p)
    \/ \E p \in Procs : get_vehicle_odometer_by_id(p)
    \/ \E p \in Procs : StatementStart(p)
    \/ \E p \in Procs : post_odometer(p)

Spec == Init /\ [][Next]_vars

\* ------------------------------------------------------------- properties
\* The tables change only when a handler returns, so in every state they are
\* as the statement of the latest return left them.
Op      == returned.req.op
Id      == returned.req.id
Status  == returned.resp.status
Body    == returned.resp.body
\* the store ran the statement of the latest return (its call did not fail
\* for want of a connection)
Ran     == ~StoreFault(returned.result)
Readings(id) == {i \in 1..Len(vehicle_odometer) :
                     vehicle_odometer[i].vehicle_id = id}
VehicleRow(id) == CHOOSE v \in Range(vehicles) : v.id = id
\* reading j's request arrived after reading i had been acknowledged
InSequence(i, j) == i < j /\ i <= issuedAfter[j]

\* C1: every odometer reading's vehicle_id is the id of a vehicle that is in
\* the store, in every reachable state.
ReadingsReferenceVehicles ==
    \A i \in 1..Len(vehicle_odometer) :
        VehicleExists(vehicles, vehicle_odometer[i].vehicle_id)

\* a delete has been run against a vehicle that has a reading
ReadingsReferenceVehiclesWitness ==
    /\ Op = "delete_vehicle_by_id" /\ Ran
    /\ Readings(Id) # {}
    /\ Id \in DOMAIN created

\* C2: a post-odometer for an id with no vehicle, once the store has run the
\* INSERT, is answered 400 'Invalid vehicle ID' (not 500) and no reading of
\* that id is in the store.
PostOdometerUnknownVehicle ==
    (Op = "post_odometer" /\ Ran /\ ~VehicleExists(vehicles, Id)) =>
        /\ returned.resp = Response(400, "Invalid vehicle ID")
        /\ Readings(Id) = {}

PostOdometerUnknownVehicleWitness ==
    /\ Op = "post_odometer" /\ Ran /\ Id = -1
    /\ Status = 400
    /\ vehicles # <<>>

\* C3: a create the store has run is answered 200 with a positive integer id,
\* and a get-by-id the store has run for an id returned by a create and not
\* deleted since is answered 200 with that id and the submitted name and
\* description.
CreateThenGet ==
    /\ (Op = "post_vehicle" /\ Ran) =>
           /\ Status = 200
           /\ Body \in Int /\ Body > 0
           /\ Body \in DOMAIN created
    /\ (Op = "get_vehicle_by_id" /\ Ran /\ Id \in DOMAIN created) =>
           returned.resp =
               Response(200, [id |-> Id, name |-> created[Id].name,
                              description |-> created[Id].description])

CreateThenGetWitness ==
    /\ Op = "get_vehicle_by_id" /\ Status = 200
    /\ Id \in DOMAIN created
    /\ Len(vehicles) = 2

\* C4 as stated: a delete the store has run is answered 200 the first time
\* the id is deleted, with the vehicle removed, and 404 otherwise: any
\* vehicle that exists can be deleted.
DeleteExistingSucceeds ==
    (Op = "delete_vehicle_by_id" /\ Ran) =>
        /\ Status \in {200, 404}
        /\ ~VehicleExists(vehicles, Id)

\* C4 as amended: a delete the store has run is answered 200 with the vehicle
\* removed, 404 with no such vehicle in the store, or 500 with the vehicle
\* kept because readings refer to it; no id is deleted with a 200 twice, a
\* deleted id is never in the store again, and every id created and not
\* deleted with a 200 is still in the store.
DeleteOnce ==
    /\ (Op = "delete_vehicle_by_id" /\ Ran) =>
           \/ /\ Status = 200
              /\ ~VehicleExists(vehicles, Id)
              /\ deleted # <<>> /\ deleted[Len(deleted)] = Id
           \/ /\ Status = 404
              /\ ~VehicleExists(vehicles, Id)
           \/ /\ Status = 500
              /\ VehicleExists(vehicles, Id)
              /\ Readings(Id) # {}
    /\ \A i, j \in 1..Len(deleted) : i # j => deleted[i] # deleted[j]
    /\ \A i \in 1..Len(deleted) :
           /\ ~VehicleExists(vehicles, deleted[i])
           /\ deleted[i] \notin DOMAIN created
           /\ deleted[i] <= vehicles_id_seq
    /\ \A id \in DOMAIN created : VehicleExists(vehicles, id)

\* one of two deletes of the same id in flight together has been answered
\* 200, the other is still waiting for the store
DeleteOnceWitness ==
    /\ Op = "delete_vehicle_by_id" /\ Status = 200
    /\ \E p \in Procs : /\ pc[p] = "await"
                        /\ req[p].op = "delete_vehicle_by_id"
                        /\ req[p].id = Id

DeleteBlockedByReadings ==
    (Op = "delete_vehicle_by_id" /\ Ran /\ Readings(Id) # {}) =>
        /\ returned.result = Err(FkDeleteViolation)
        /\ returned.resp = Response(500, "Failed to delete vehicle")
        /\ VehicleExists(vehicles, Id)
        /\ Id \in DOMAIN created =>
               VehicleRow(Id) = [id |-> Id, name |-> created[Id].name,
                                 description |-> created[Id].description]

DeleteBlockedByReadingsWitness ==
    /\ Op = "delete_vehicle_by_id" /\ Ran
    /\ Readings(Id) # {}
    /\ Status = 500

\* C7: a handler whose store call failed returns 400 or 500, and 400 only for
\* post-odometer's foreign-key failure; every request makes one store call and
\* is over when that call has come back.
StoreFailuresAnswered ==
    /\ returned.result.tag = "Err" =>
           /\ Status \in {400, 500}
           /\ Status = 400 <=> (/\ Op = "post_odometer"
                                /\ returned.result.err = FkInsertViolation)
    /\ calls = received - Cardinality({p \in Procs : pc[p] # "idle"})
    /\ calls > 0 => Op # "none" /\ Status # 0

\* a delete refused for the foreign key: a constraint failure answered 500
StoreFailuresAnsweredWitness ==
    /\ Op = "delete_vehicle_by_id"
    /\ returned.result = Err(FkDeleteViolation)
    /\ Status = 500

\* C8 as stated: of any two readings, the one inserted later has a timestamp
\* not earlier than the other's.
TimestampsFollowInsertion ==
    \A i, j \in 1..Len(vehicle_odometer) :
        i < j => vehicle_odometer[i].timestamp <= vehicle_odometer[j].timestamp

\* C8 as amended: every timestamp is a reading of the server's clock, the one
\* the statement's now() gave; of two readings, one whose request arrived
\* after the other had been acknowledged has the later timestamp.
TimestampsFollowSequence ==
    /\ \A i \in 1..Len(vehicle_odometer) :
           vehicle_odometer[i].timestamp \in 1..clock
    /\ (Op = "post_odometer" /\ returned.result.tag = "Ok") =>
           vehicle_odometer[Len(vehicle_odometer)] =
               [vehicle_id |-> Id, odometer |-> returned.req.odometer,
                timestamp |-> returned.now]
    /\ \A i, j \in 1..Len(vehicle_odometer) :
           InSequence(i, j) =>
               vehicle_odometer[i].timestamp < vehicle_odometer[j].timestamp

\* two readings posted one after the other, the second with the smaller
\* odometer value
TimestampsFollowSequenceWitness ==
    /\ Len(vehicle_odometer) = 2
    /\ InSequence(1, 2)
    /\ vehicle_odometer[1].odometer > vehicle_odometer[2].odometer

\* C9: a list-vehicles the store has run is answered 200 with every vehicle
\* in the store, `rows` being the number of entries; every id created and not
\* deleted is among them, so rows is at least their number.
ListVehiclesComplete ==
    (Op = "get_vehicles" /\ Ran) =>
        /\ Status = 200
        /\ Body.rows = Len(Body.vehicles)
        /\ Range(Body.vehicles) = Range(vehicles)
        /\ \A id \in DOMAIN created :
               [id |-> id, name |-> created[id].name,
                description |-> created[id].description]
                   \in Range(Body.vehicles)
        /\ Body.rows >= Cardinality(DOMAIN created)

ListVehiclesCompleteWitness ==
    /\ Op = "get_vehicles" /\ Status = 200
    /\ Cardinality(DOMAIN created) = 2
    /\ Body.rows = 2

\* C10: a get-latest-odometer the store has run for an id without readings is
\* answered 404, whether the vehicle exists or not, and so is a get-by-id the
\* store has run for an id without vehicle.
NotFoundAnswers ==
    /\ (Op = "get_vehicle_odometer_by_id" /\ Ran /\ Readings(Id) = {}) =>
           returned.resp = Response(404, "No odometer record")
    /\ (Op = "get_vehicle_by_id" /\ Ran /\ ~VehicleExists(vehicles, Id)) =>
           returned.resp = Response(404, "Vehicle not found")

\* a vehicle that exists and has no reading, while another one has
NotFoundAnswersWitness ==
    /\ Op = "get_vehicle_odometer_by_id" /\ Status = 404
    /\ VehicleExists(vehicles, Id)
    /\ vehicle_odometer # <<>>

====
